---- MODULE Spec2Model ----
(***************************************************************************)
(* The merchant's MITM error generator (src/mitm/talermerchantmitm/mitm.py) *)
(* as a state machine: process start-up, and for every inbound request the  *)
(* steps of the Flask view `all`: routing, request.get_json(), the URL      *)
(* rewriting, the upstream call through `requests`, the dispatch on the     *)
(* X-Taler-Mitm header, and the construction of the outbound response.      *)
(* src/mitm/mitm.py is the earlier copy of the same view (no `keys`, the    *)
(* body returned through jsonify); the packaged module is the one modelled. *)
(* Flask is taken as the versions the code was written for (0.10 to 2.0):   *)
(* get_json() returns None for a request whose Content-Type is not JSON.    *)
(*                                                                         *)
(* Representation.  A text (an HTTP body) is a sequence of lexemes; a URL   *)
(* is the record of its components, its path held as the list              *)
(* path.split('/') ("/a/b" is <<"", "a", "b">>, "/" is <<"", "">>, "" is    *)
(* <<"">>); a relative reference (Flask's `path` argument) is the list of   *)
(* its segments, <<>> for the empty string.                                 *)
(***************************************************************************)
EXTENDS Integers, Sequences, FiniteSets, TLC

VARIABLES phase, exchange_url, req

vars == <<phase, exchange_url, req>>

\* Longest inbound path, in segments.
MaxPathLen == 2

\* Requests in flight at once.
MaxReq == 2

Rids == 1..MaxReq

Last(s) == s[Len(s)]

Front(s) == SubSeq(s, 1, Len(s) - 1)

(***************************************************************************)
(* Python values.  None is the one value that request.get_json() returns    *)
(* for "no JSON here" and that json.loads returns for the JSON text `null`. *)
(***************************************************************************)
PyNone == [k |-> "None"]

Numbers == {"1", "5"}

Strings == {"\"a\"", "\"x\""}

ParseError == [ok |-> FALSE]

RECURSIVE SkipWs(_, _)
SkipWs(t, i) == IF i <= Len(t) /\ t[i] = " " THEN SkipWs(t, i + 1) ELSE i

\* dict[key] = val: a key already present keeps its place and takes the value.
RECURSIVE DictPut(_, _, _)
DictPut(members, key, val) ==
    IF members = <<>> THEN <<[key |-> key, val |-> val]>>
    ELSE IF Head(members).key = key
         THEN <<[key |-> key, val |-> val]>> \o Tail(members)
         ELSE <<Head(members)>> \o DictPut(Tail(members), key, val)

\* json.loads' recursive descent: a value starting at lexeme i0 of t.
RECURSIVE ParseValue(_, _), ParseElements(_, _, _), ParseMembers(_, _, _)
ParseValue(t, i0) ==
    LET i == SkipWs(t, i0) IN
    IF i > Len(t) THEN ParseError
    ELSE IF t[i] = "null" THEN [ok |-> TRUE, val |-> PyNone, next |-> i + 1]
    ELSE IF t[i] \in Numbers
         THEN [ok |-> TRUE, val |-> [k |-> "int", s |-> t[i]], next |-> i + 1]
    ELSE IF t[i] \in Strings
         THEN [ok |-> TRUE, val |-> [k |-> "str", s |-> t[i]], next |-> i + 1]
    ELSE IF t[i] = "["
         THEN LET j == SkipWs(t, i + 1) IN
              IF j <= Len(t) /\ t[j] = "]"
              THEN [ok |-> TRUE, val |-> [k |-> "list", items |-> <<>>],
                    next |-> j + 1]
              ELSE ParseElements(t, i + 1, <<>>)
    ELSE IF t[i] = "{"
         THEN LET j == SkipWs(t, i + 1) IN
              IF j <= Len(t) /\ t[j] = "}"
              THEN [ok |-> TRUE, val |-> [k |-> "dict", members |-> <<>>],
                    next |-> j + 1]
              ELSE ParseMembers(t, i + 1, <<>>)
    ELSE ParseError

ParseElements(t, i, acc) ==
    LET v == ParseValue(t, i) IN
    IF ~v.ok THEN ParseError
    ELSE LET j == SkipWs(t, v.next) IN
         IF j > Len(t) THEN ParseError
         ELSE IF t[j] = "," THEN ParseElements(t, j + 1, Append(acc, v.val))
         ELSE IF t[j] = "]"
              THEN [ok |-> TRUE,
                    val |-> [k |-> "list", items |-> Append(acc, v.val)],
                    next |-> j + 1]
         ELSE ParseError

ParseMembers(t, i0, acc) ==
    LET i == SkipWs(t, i0) IN
    IF i > Len(t) \/ ~(t[i] \in Strings) THEN ParseError
    ELSE LET c == SkipWs(t, i + 1) IN
         IF c > Len(t) \/ t[c] # ":" THEN ParseError
         ELSE LET v == ParseValue(t, c + 1) IN
              IF ~v.ok THEN ParseError
              ELSE LET j == SkipWs(t, v.next)
                       put == DictPut(acc, t[i], v.val)
                   IN IF j > Len(t) THEN ParseError
                      ELSE IF t[j] = "," THEN ParseMembers(t, j + 1, put)
                      ELSE IF t[j] = "}"
                           THEN [ok |-> TRUE,
                                 val |-> [k |-> "dict", members |-> put],
                                 next |-> j + 1]
                      ELSE ParseError

\* json.loads(t): one value, white space around it, nothing after it.
json_loads(t) ==
    LET v == ParseValue(t, 1) IN
    IF v.ok /\ SkipWs(t, v.next) > Len(t)
    THEN [ok |-> TRUE, val |-> v.val]
    ELSE ParseError

\* json.dumps(v) with its default separators ", " and ": ".
RECURSIVE json_dumps(_), DumpItems(_), DumpMembers(_)
json_dumps(v) ==
    IF v.k = "None" THEN <<"null">>
    ELSE IF v.k \in {"int", "str"} THEN <<v.s>>
    ELSE IF v.k = "list" THEN <<"[">> \o DumpItems(v.items) \o <<"]">>
    ELSE <<"{">> \o DumpMembers(v.members) \o <<"}">>

DumpItems(items) ==
    IF items = <<>> THEN <<>>
    ELSE json_dumps(Head(items))
         \o (IF Len(items) = 1 THEN <<>>
             ELSE <<",", " ">> \o DumpItems(Tail(items)))

DumpMembers(members) ==
    IF members = <<>> THEN <<>>
    ELSE <<Head(members).key, ":", " ">> \o json_dumps(Head(members).val)
         \o (IF Len(members) = 1 THEN <<>>
             ELSE <<",", " ">> \o DumpMembers(Tail(members)))

(***************************************************************************)
(* URLs (urllib.parse).  params and fragment are always empty here and are  *)
(* left out of the component tuple.                                         *)
(***************************************************************************)
Url(scheme, netloc, path, query) ==
    [scheme |-> scheme, netloc |-> netloc, path |-> path, query |-> query]

\* urlparse(u): the tuple (scheme, netloc, path, query); Python's url[0] and
\* url[1] are elements 1 and 2.
urlparse(u) == <<u.scheme, u.netloc, u.path, u.query>>

\* urlunparse(t): with a netloc, a non-empty path gets its leading "/".
urlunparse(t) ==
    Url(t[1], t[2],
        IF t[2] # "" /\ t[3] # <<"">> /\ t[3][1] # "" THEN <<"">> \o t[3]
        ELSE t[3],
        t[4])

RECURSIVE FilterEmpty(_)
FilterEmpty(s) ==
    IF s = <<>> THEN <<>>
    ELSE IF Head(s) = "" THEN FilterEmpty(Tail(s))
    ELSE <<Head(s)>> \o FilterEmpty(Tail(s))

\* urljoin's loop over the segments: ".." pops, "." is skipped.
RECURSIVE ResolveDots(_, _)
ResolveDots(segments, resolved) ==
    IF segments = <<>> THEN resolved
    ELSE IF Head(segments) = ".."
         THEN ResolveDots(Tail(segments),
                          IF resolved = <<>> THEN <<>> ELSE Front(resolved))
    ELSE IF Head(segments) = "." THEN ResolveDots(Tail(segments), resolved)
    ELSE ResolveDots(Tail(segments), Append(resolved, Head(segments)))

\* urljoin(base, url) for a relative reference `url` that has a path only
\* (no scheme, netloc or query of its own): RFC 3986 resolution.  An empty
\* reference returns the base; otherwise the base path loses its last
\* segment, the reference is appended, and the result has the reference's
\* query, which is empty.
urljoin(base, url) ==
    IF url = <<>> THEN base
    ELSE LET base_parts == IF Last(base.path) # "" THEN Front(base.path)
                           ELSE base.path
             joined == base_parts \o url
             segments == <<Head(joined)>>
                         \o FilterEmpty(SubSeq(joined, 2, Len(joined) - 1))
                         \o <<Last(joined)>>
             resolved == ResolveDots(segments, <<>>)
             closed == IF Last(segments) \in {".", ".."}
                       THEN Append(resolved, "") ELSE resolved
         IN Url(base.scheme, base.netloc,
                IF closed \in {<<>>, <<"">>} THEN <<"", "">> ELSE closed,
                "")

\* What `requests` accepts as a URL: MissingSchema, InvalidSchema or
\* InvalidURL is raised for anything else, before any connection is made.
Callable(u) == u.scheme \in {"http", "https"} /\ u.netloc # ""

(***************************************************************************)
(* Configuration: the value of TALER_EXCHANGE_URL (or of --exchange).       *)
(* PyNone is "not set"; the third value is the string "exchange.example",   *)
(* which urlparse reads as a path with no scheme and no authority.          *)
(***************************************************************************)
ExchangeConfigs ==
    { PyNone,
      Url("https", "exchange.example:8443", <<"">>, ""),
      Url("http", "up:9000", <<"", "">>, ""),
      Url("", "", <<"exchange.example">>, "") }

\* An absolute URL: scheme and authority.
WellFormed(c) == c # PyNone /\ c.scheme # "" /\ c.netloc # ""

(***************************************************************************)
(* Inbound requests.                                                        *)
(***************************************************************************)
NoHeader == "(absent)"

Directives == {NoHeader, "bogus", "track_transaction", "track_transfer", "keys"}

Segs == {"track", "transfer"}

\* Flask's `path` values: <<>> for the root, else the segments; a trailing
\* "" is a trailing slash.
Paths ==
    LET plain == UNION {[1..n -> Segs] : n \in 0..MaxPathLen}
    IN plain \cup {Append(p, "") : p \in {q \in plain : Len(q) \in 1..(MaxPathLen - 1)}}

Queries == {"", "wtid=ABC"}

JsonX5 == <<"{", "\"x\"", ":", "5", "}">>

\* (is_json, data): whether the Content-Type is JSON, and the body text.
InboundBodies ==
    { <<FALSE, <<>>>>,
      <<TRUE, JsonX5>>,
      <<TRUE, <<"[", "1", ",", "5", "]">>>>,
      <<TRUE, <<"null">>>>,
      <<TRUE, <<"{", "\"x\"">>>>,
      <<TRUE, <<>>>>,
      <<FALSE, JsonX5>> }

Request(method, path, query, b, mitm) ==
    [method |-> method, path |-> path, query |-> query,
     is_json |-> b[1], data |-> b[2], mitm |-> mitm]

InboundRequests ==
    { Request(m, p, q, b, d) :
        m \in {"GET", "POST"}, p \in Paths, q \in Queries,
        b \in InboundBodies, d \in {NoHeader, "keys"} }

FewRequests ==
    { Request("GET", <<"keys">>, "", <<FALSE, <<>>>>, d) : d \in Directives }
    \cup { Request("POST", <<>>, "", <<FALSE, <<>>>>, NoHeader),
           Request("POST", <<"track">>, "", <<TRUE, <<"{", "\"x\"">>>>, "keys") }

ConcRequests ==
    { Request("GET", <<"keys">>, "", <<FALSE, <<>>>>, "keys"),
      Request("POST", <<"track">>, "", <<TRUE, JsonX5>>, NoHeader),
      Request("POST", <<"track">>, "", <<TRUE, <<"{", "\"x\"">>>>, "keys") }

\* request.url: the URL the proxy was reached on.
RequestUrl(rq) ==
    Url("http", "localhost:5000",
        IF rq.path = <<>> THEN <<"", "">> ELSE <<"">> \o rq.path,
        rq.query)

(***************************************************************************)
(* Upstream responses (requests.Response): status_code, text, headers.      *)
(* A header is [name, value]; names are unique up to case and keep the case *)
(* the upstream sent.                                                       *)
(***************************************************************************)
Lower(n) ==
    CASE n = "Server" -> "server"
      [] n = "Content-Length" -> "content-length"
      [] n = "Content-Type" -> "content-type"
      [] OTHER -> n

Header(n, v) == [name |-> n, value |-> v]

RespBodies ==
    { <<>>,
      <<"not", " ", "json">>,
      <<"{", "\"a\"", ":", "1", "}">>,
      <<"{", "\"a\"", ":", " ", "1", "}">>,
      <<" ", "[", "1", ",", "null", ",", "[", "]", "]">>,
      <<"{", "\"a\"", ":", "1", ",", "\"a\"", ":", "5", "}">>,
      <<"{", "\"a\"", ":", "{", "\"x\"", ":", "[", "5", "]", "}", ",", "\"x\"", ":", "null", "}">>,
      <<"{", "\"a\"", ":", "1", "}", "}">>,
      <<"null">> }

Statuses == {200, 204, 404, 500}

UpstreamHeaders(text, sv, cl, ct) ==
    {Header(n, "nginx") : n \in {sv} \ {"-"}}
    \cup {Header(n, ToString(Len(text))) : n \in {cl} \ {"-"}}
    \cup {Header(n, "application/json") : n \in {ct} \ {"-"}}

Response(status, text, headers) ==
    [status_code |-> status, text |-> text, headers |-> headers]

UpstreamResponses ==
    { Response(st, t, UpstreamHeaders(t, sv, cl, ct)) :
        st \in Statuses, t \in RespBodies,
        sv \in {"-", "Server", "server"},
        cl \in {"-", "Content-Length", "content-length"},
        ct \in {"-", "Content-Type"} }

FewResponses ==
    { Response(200, <<"{", "\"a\"", ":", "1", "}">>,
               UpstreamHeaders(<<"{", "\"a\"", ":", "1", "}">>,
                               "Server", "Content-Length", "Content-Type")),
      Response(404, <<"not", " ", "json">>, {}) }

ConcResponses == FewResponses

(***************************************************************************)
(* Outbound responses (flask.Response).  An outbound header also records    *)
(* who set it: make_response ("flask") or the copy loop of `all` ("copied").*)
(***************************************************************************)
OutHeader(n, v, origin) == [name |-> n, value |-> v, origin |-> origin]

\* make_response(text): status 200, the default Content-Type, and the
\* Content-Length of the text.
make_response(text) ==
    [status_code |-> 200, text |-> text,
     headers |-> { OutHeader("Content-Type", "text/html; charset=utf-8", "flask"),
                   OutHeader("Content-Length", ToString(Len(text)), "flask") }]

\* response.headers[key] = value: replaces a header of that name, whatever
\* its case.
SetHeader(headers, key, value) ==
    {h \in headers : Lower(h.name) # Lower(key)}
    \cup {OutHeader(key, value, "copied")}

\* The error page Flask answers with when routing fails (405), when the
\* view aborts (400), or when the view raises (500).
FlaskError(code) ==
    [status_code |-> code, text |-> <<"error page">>,
     headers |-> { OutHeader("Content-Type", "text/html", "flask"),
                   OutHeader("Content-Length", ToString(Len(<<"error page">>)), "flask") }]

(***************************************************************************)
(* The transformations and the dispatcher.                                  *)
(***************************************************************************)
\* Mutant: the body re-encoded as JSON, as src/mitm/mitm.py's jsonify did.
track_transaction_json(resp) ==
    LET parsed == json_loads(resp.text) IN
    IF parsed.ok THEN json_dumps(parsed.val) ELSE resp.text

track_transaction(resp) == resp.text

track_transfer(resp) == resp.text

\* Mutant: the except branch returns an empty body instead of the text.
keys_empty_on_error(resp) ==
    LET parsed == json_loads(resp.text) IN
    IF parsed.ok THEN json_dumps(parsed.val) ELSE <<>>

\* resp.json() is json.loads of the body; any exception falls back to the
\* text.
keys(resp) ==
    LET parsed == json_loads(resp.text) IN
    IF parsed.ok THEN json_dumps(parsed.val) ELSE resp.text

\* dispatcher.get(request.headers.get("X-Taler-Mitm"), lambda x: x.text)(r)
dispatcher(mitm, r) ==
    CASE mitm = "track_transaction" -> track_transaction(r)
      [] mitm = "track_transfer" -> track_transfer(r)
      [] mitm = "keys" -> keys(r)
      [] OTHER -> r.text

\* The keys of r.headers that the loop copies: the comparison with
\* ("Server", "Content-Length") is one of strings, case and all.
Copied(r) == {h \in r.headers : h.name \notin {"Server", "Content-Length"}}

RECURSIVE CopyHeaders(_, _)
CopyHeaders(headers, todo) ==
    IF todo = {} THEN headers
    ELSE LET h == CHOOSE x \in todo : TRUE
         IN CopyHeaders(SetHeader(headers, h.name, h.value), todo \ {h})

\* Mutant: `return response` without r.status_code.
BuildResponseNoStatus(mitm, r) ==
    LET response == make_response(dispatcher(mitm, r))
    IN [response EXCEPT !.headers = CopyHeaders(@, Copied(r))]

\* Lines 67-78 of `all`: the outbound response for upstream response r.
BuildResponse(mitm, r) ==
    LET response == make_response(dispatcher(mitm, r))
    IN [response EXCEPT !.headers = CopyHeaders(@, Copied(r)),
                        !.status_code = r.status_code]

(***************************************************************************)
(* Routing (the two app.route rules), get_json and the upstream call.       *)
(***************************************************************************)
\* '/' is registered with no methods (GET by default), '/<path:path>' with
\* GET and POST.
RouteMethods(path) == IF path = <<>> THEN {"GET"} ELSE {"GET", "POST"}

\* request.get_json(): None unless the Content-Type is JSON; else the parsed
\* body, or BadRequest when it does not parse.
get_json(rq) ==
    IF ~rq.is_json THEN [ok |-> TRUE, val |-> PyNone]
    ELSE json_loads(rq.data)

\* Lines 58-62: the request's URL with the exchange's scheme and netloc.
Rewrite(url, xurl) ==
    urlunparse(<<urlparse(xurl)[1], urlparse(xurl)[2],
                 urlparse(url)[3], urlparse(url)[4]>>)

\* The URL passed to requests.post / requests.get.
TargetUrl(rq, base) == urljoin(Rewrite(RequestUrl(rq), base), rq.path)

\* json=body: no body for None, else the serialized value.
CallBody(body) == IF body = PyNone THEN <<>> ELSE json_dumps(body)

\* The method of the upstream call.
CallMethod(rq) == IF "POST" = rq.method THEN "POST" ELSE "GET"

NoRequest == [absent |-> "request"]

NoCall == [absent |-> "call"]

NoResponse == [absent |-> "response"]

Idle ==
    [pc |-> "idle", request |-> NoRequest, invoked |-> 0, body |-> PyNone,
     calls |-> 0, call |-> NoCall, upstream |-> "none", r |-> NoResponse,
     response |-> NoResponse]

\* Mutant: the exception caught and answered with an empty success.
Swallowed(s) == [s EXCEPT !.pc = "done", !.response = make_response(<<>>)]

\* requests raised inside `all` (nothing catches it): Flask answers 500.
Raised(s) == [s EXCEPT !.pc = "failed", !.response = FlaskError(500)]

\* Mutant: r kept in a module-level global that the latest reply overwrote.
SharedR(i) ==
    LET others == {j \in Rids : j # i /\ req[j].r # NoResponse}
    IN IF others = {} THEN req[i].r ELSE req[CHOOSE j \in others : TRUE].r

\* The response `all` works on: its own local r.
HandlerR(i) == req[i].r

(***************************************************************************)
(* Start-up.                                                                *)
(***************************************************************************)
InitWith(configs) ==
    /\ phase = "start"
    /\ exchange_url \in configs
    /\ req = [i \in Rids |-> Idle]

Init == InitWith(ExchangeConfigs)

\* taler-merchant-mitm.py with --exchange: exit(1) when it is not given; the
\* script ends there.
RunScript ==
    /\ phase = "start"
    /\ phase' = IF exchange_url = PyNone THEN "exit1" ELSE "script_end"
    /\ UNCHANGED <<exchange_url, req>>

\* Importing mitm.py with TALER_EXCHANGE_URL: assert(None != exchange_url).
ImportApp ==
    /\ phase = "start"
    /\ phase' = IF exchange_url = PyNone THEN "assertion_error" ELSE "serving"
    /\ UNCHANGED <<exchange_url, req>>

(***************************************************************************)
(* One request.                                                             *)
(***************************************************************************)
Receive(i, requests) ==
    /\ phase = "serving"
    /\ req[i].pc = "idle"
    /\ \E rq \in requests :
         req' = [req EXCEPT ![i] = [@ EXCEPT !.pc = "received", !.request = rq]]
    /\ UNCHANGED <<phase, exchange_url>>

Route(i) ==
    /\ req[i].pc = "received"
    /\ req' = [req EXCEPT ![i] =
                 IF req[i].request.method \in RouteMethods(req[i].request.path)
                 THEN [@ EXCEPT !.pc = "in_all", !.invoked = @ + 1]
                 ELSE [@ EXCEPT !.pc = "rejected", !.response = FlaskError(405)]]
    /\ UNCHANGED <<phase, exchange_url>>

GetJson(i) ==
    /\ req[i].pc = "in_all"
    /\ LET body == get_json(req[i].request) IN
       req' = [req EXCEPT ![i] =
                 IF body.ok
                 THEN [@ EXCEPT !.pc = "got_body", !.body = body.val]
                 ELSE [@ EXCEPT !.pc = "aborted", !.response = FlaskError(400)]]
    /\ UNCHANGED <<phase, exchange_url>>

Forward(i) ==
    /\ req[i].pc = "got_body"
    /\ LET rq == req[i].request
           url == TargetUrl(rq, exchange_url)
           called == [req[i] EXCEPT
                        !.calls = @ + 1,
                        !.call = [method |-> CallMethod(rq), url |-> url,
                                  body |-> CallBody(req[i].body)]]
       IN req' = [req EXCEPT ![i] =
                    IF Callable(url)
                    THEN [called EXCEPT !.pc = "calling", !.upstream = "pending"]
                    ELSE Raised([called EXCEPT !.upstream = "invalid_url"])]
    /\ UNCHANGED <<phase, exchange_url>>

Reply(i, responses) ==
    /\ req[i].pc = "calling"
    /\ \E r \in responses :
         req' = [req EXCEPT ![i] =
                   [@ EXCEPT !.pc = "responded", !.upstream = "answered", !.r = r]]
    /\ UNCHANGED <<phase, exchange_url>>

\* Connection refused, DNS failure, timeout: requests raises.
TransportFailure(i) ==
    /\ req[i].pc = "calling"
    /\ req' = [req EXCEPT ![i] = Raised([@ EXCEPT !.upstream = "unreachable"])]
    /\ UNCHANGED <<phase, exchange_url>>

Respond(i) ==
    /\ req[i].pc = "responded"
    /\ req' = [req EXCEPT ![i] =
                 [@ EXCEPT !.pc = "done",
                           !.response = BuildResponse(req[i].request.mitm,
                                                      HandlerR(i))]]
    /\ UNCHANGED <<phase, exchange_url>>

all(i, requests, responses) ==
    \/ Receive(i, requests)
    \/ Route(i)
    \/ GetJson(i)
    \/ Forward(i)
    \/ Reply(i, responses)
    \/ TransportFailure(i)
    \/ Respond(i)

\* One request at a time, every inbound request, two upstream responses.
Next ==
    \/ RunScript
    \/ ImportApp
    \/ all(1, InboundRequests, FewResponses)

Spec == Init /\ [][Next]_vars

\* One request at a time, every upstream response.
NextResp ==
    \/ RunScript
    \/ ImportApp
    \/ all(1, FewRequests, UpstreamResponses)

SpecResp == Init /\ [][NextResp]_vars

\* MaxReq requests in any interleaving.
NextConc ==
    \/ RunScript
    \/ ImportApp
    \/ \E i \in Rids : all(i, ConcRequests, ConcResponses)

SpecConc == Init /\ [][NextConc]_vars

(***************************************************************************)
(* Properties.                                                              *)
(***************************************************************************)
Called(i) == req[i].call # NoCall

\* The call went out: `requests` accepted its URL.
Sent(i) == Called(i) /\ req[i].upstream # "invalid_url"

Done(i) == req[i].pc = "done"

HasName(headers, lname) == \E h \in headers : Lower(h.name) = lname

Excluded == {"server", "content-length"}

\* C1: for every inbound URL and every well-formed upstream base, the URL
\* called upstream has the base's scheme and authority and exactly the
\* inbound path and query.
C1_TargetKeepsPathAndQuery ==
    \A i \in Rids :
        Sent(i) /\ WellFormed(exchange_url) =>
            /\ req[i].call.url.scheme = exchange_url.scheme
            /\ req[i].call.url.netloc = exchange_url.netloc
            /\ req[i].call.url.path = RequestUrl(req[i].request).path
            /\ req[i].call.url.query = req[i].request.query

\* C2: once the upstream has answered, the handler goes on to build the
\* outbound response, and the outbound status code is the upstream status
\* code, whatever the directive and the body.
C2_StatusCopied ==
    \A i \in Rids :
        req[i].upstream = "answered" =>
            /\ req[i].pc \in {"responded", "done"}
            /\ Done(i) => req[i].response.status_code = req[i].r.status_code

\* C2's case: an upstream 500 with a body that is not JSON, under `keys`.
C2_Witness ==
    \E i \in Rids :
        /\ Done(i)
        /\ req[i].request.mitm = "keys"
        /\ req[i].r.status_code = 500
        /\ ~json_loads(req[i].r.text).ok
        /\ req[i].response.status_code = 500

\* C3: with the directive absent, unrecognized, track_transaction or
\* track_transfer, the outbound body is the upstream body text unchanged.
C3_IdentityBody ==
    \A i \in Rids :
        Done(i) /\ req[i].request.mitm # "keys" =>
            req[i].response.text = req[i].r.text

\* C3's case: track_transaction on a JSON body that re-serialization would
\* change.
C3_Witness ==
    \E i \in Rids :
        /\ Done(i)
        /\ req[i].request.mitm = "track_transaction"
        /\ json_loads(req[i].r.text).ok
        /\ keys(req[i].r) # req[i].r.text
        /\ req[i].response.text = req[i].r.text

\* C4: when the upstream response has a Server and a Content-Length header
\* (names compared without case), the handler copies neither into the
\* outbound response, copies every other upstream header with its value,
\* and copies nothing the upstream did not send.
C4_StripsServerAndContentLength ==
    \A i \in Rids :
        /\ Done(i)
        /\ HasName(req[i].r.headers, "server")
        /\ HasName(req[i].r.headers, "content-length")
        => /\ \A h \in req[i].response.headers :
                h.origin = "copied" => Lower(h.name) \notin Excluded
           /\ \A u \in req[i].r.headers :
                Lower(u.name) \notin Excluded =>
                    OutHeader(u.name, u.value, "copied") \in req[i].response.headers
           /\ \A h \in req[i].response.headers :
                h.origin = "copied" => Header(h.name, h.value) \in req[i].r.headers

\* C5: under `keys` an answered request never fails; a JSON body is
\* re-serialized to a text that parses to the same value, any other body is
\* returned as it is, and the upstream status is returned.
C5_KeysNeverRaises ==
    \A i \in Rids :
        req[i].upstream = "answered" /\ req[i].request.mitm = "keys" =>
            /\ req[i].pc \in {"responded", "done"}
            /\ Done(i) =>
                /\ req[i].response.status_code = req[i].r.status_code
                /\ IF json_loads(req[i].r.text).ok
                   THEN /\ json_loads(req[i].response.text).ok
                        /\ json_loads(req[i].response.text).val
                           = json_loads(req[i].r.text).val
                   ELSE req[i].response.text = req[i].r.text

\* C5's case: the body `not json` with status 200 under `keys`.
C5_Witness ==
    \E i \in Rids :
        /\ Done(i)
        /\ req[i].request.mitm = "keys"
        /\ req[i].r.status_code = 200
        /\ req[i].r.text = <<"not", " ", "json">>
        /\ req[i].response.text = <<"not", " ", "json">>

\* C6: the upstream call has the inbound method, carries the inbound JSON
\* value when the inbound body parses as JSON, and no body when the inbound
\* request has none.
C6_ForwardsMethodAndBody ==
    \A i \in Rids :
        Sent(i) =>
            /\ req[i].call.method = req[i].request.method
            /\ json_loads(req[i].request.data).ok =>
                /\ json_loads(req[i].call.body).ok
                /\ json_loads(req[i].call.body).val
                   = json_loads(req[i].request.data).val
            /\ req[i].request.data = <<>> => req[i].call.body = <<>>

\* C7: every GET or POST request, on every path, the root included, gets
\* past routing, and `all` is invoked exactly once for it.
C7_NothingRejectedByRouting ==
    \A i \in Rids :
        req[i].request # NoRequest /\ req[i].request.method \in {"GET", "POST"} =>
            /\ req[i].pc # "rejected"
            /\ req[i].pc # "received" => req[i].invoked = 1

\* C8: a request whose upstream call fails at the transport level ends as
\* Flask's server error: no success status, no body of the handler's making,
\* no upstream response transformed, no header copied.
C8_TransportFailureIsServerError ==
    \A i \in Rids :
        req[i].upstream = "unreachable" =>
            /\ req[i].pc = "failed"
            /\ req[i].response.status_code = 500
            /\ req[i].response.text = FlaskError(500).text
            /\ \A h \in req[i].response.headers : h.origin # "copied"
            /\ req[i].r = NoResponse

\* C8's case: a forwarded POST whose upstream is unreachable.
C8_Witness ==
    \E i \in Rids :
        /\ req[i].upstream = "unreachable"
        /\ req[i].calls = 1
        /\ req[i].request.method = "POST"
        /\ req[i].response.status_code = 500

\* C9: with a missing or malformed upstream base URL the process never
\* serves: it does not reach the serving phase and takes no request.
C9_NoServingWithoutValidBase ==
    ~WellFormed(exchange_url) =>
        /\ phase # "serving"
        /\ \A i \in Rids : req[i].pc = "idle"

\* What holds of each request on its own: `calls` counts the invocations of
\* requests.post / requests.get; the call is pending or over before r is
\* set; there is no outbound response before the handler ends; the call and
\* the outbound response are those computed from the request's own fields.
C10_Own ==
    \A i \in Rids :
        /\ req[i].calls <= 1
        /\ req[i].pc \in {"idle", "received", "rejected", "in_all", "aborted", "got_body"}
           => req[i].calls = 0 /\ req[i].r = NoResponse
        /\ req[i].pc \in {"calling", "responded", "done"} => req[i].calls = 1
        /\ req[i].pc \in {"responded", "done"}
           <=> req[i].upstream = "answered" /\ req[i].r # NoResponse
        /\ req[i].pc \notin {"rejected", "aborted", "failed", "done"}
           => req[i].response = NoResponse
        /\ Called(i) =>
             req[i].call = [method |-> CallMethod(req[i].request),
                            url |-> TargetUrl(req[i].request, exchange_url),
                            body |-> CallBody(get_json(req[i].request).val)]
        /\ Done(i) =>
             req[i].response = BuildResponse(req[i].request.mitm, req[i].r)

\* What a step may change: one request's state, and never the upstream base
\* once the module is imported.
C10_Step ==
    /\ \A i, j \in Rids : i # j /\ req'[i] # req[i] => req'[j] = req[j]
    /\ phase # "start" => exchange_url' = exchange_url

====
